---- MODULE Spec2Model ----
(***************************************************************************)
(* Release update orchestrator (tiller UpdateRelease) over the release     *)
(* store (pkg/storage).                                                    *)
(*                                                                         *)
(* Strings that the code splits, formats or concatenates (release names,   *)
(* namespaces, storage keys) are tuples of one-character strings, so that  *)
(* splitName, key and makeKey are computed as the code computes them.      *)
(* Descriptions are tuples of text fragments; error values are strings.    *)
(***************************************************************************)
EXTENDS Integers, Sequences, FiniteSets, TLC

\* Number of UpdateRelease requests, each served by its own worker; they run
\* concurrently, in every interleaving (one after the other included).
NumProcs == 2

Procs == 1..NumProcs

-----------------------------------------------------------------------------
(* Text helpers *)

\* fmt's %d for a non-negative integer.
RECURSIVE Itoa(_)
Itoa(n) ==
    LET digit(d) == <<"0", "1", "2", "3", "4", "5", "6", "7", "8", "9">>[d + 1]
    IN  IF n < 10 THEN <<digit(n)>> ELSE Itoa(n \div 10) \o <<digit(n % 10)>>

\* strings.Split(s, "/"): the segments of s between separators, at least one.
RECURSIVE Split(_)
Split(s) ==
    IF s = <<>>
    THEN <<<<>>>>
    ELSE LET rest == Split(Tail(s))
         IN  IF Head(s) = "/"
             THEN <<<<>>>> \o rest
             ELSE <<<<Head(s)>> \o Head(rest)>> \o Tail(rest)

-----------------------------------------------------------------------------
(* Storage keys: pkg/storage/storage.go *)

\* splitName: <<namespace, name>> of a possibly namespaced name.
splitName(name) ==
    LET results == Split(name)
    IN  IF Len(results) = 2
        THEN <<results[1], results[2]>>
        ELSE <<<<>>, results[Len(results)]>>

\* key: unique name for namespace and name, "%s.%s" of name and namespace.
key(namespace, name) ==
    IF namespace = <<>> THEN name ELSE name \o <<".">> \o namespace

\* keyForRelease normalises rls.Name in place; this is the stored object.
normalizeName(rls) == [rls EXCEPT !.Name = splitName(rls.Name)[2]]

keyForRelease(rls) == key(rls.Namespace, normalizeName(rls).Name)

\* makeKey: "%s.v%d" of the release key and the version.
makeKey(rlsname, version) == rlsname \o <<".", "v">> \o Itoa(version)

-----------------------------------------------------------------------------
(* Values *)

Nil == "nil"
errMissingRelease == "no release provided"
errMissingChart   == "no chart provided"
errNoRevision     == "no revision for release"
errReuseValues    == "reuse values failed"
errCapabilities   == "capabilities failed"
errRender         == "render failed"
errValidate       == "manifest validation failed"
errPreHook        == "pre-upgrade hook failed"
errPostHook       == "post-upgrade hook failed"
errApply          == "cluster update failed"
errExists         == "release already exists"
errNotFound       == "release not found"

\* Failures of the collaborators called by prepareUpdate after Last.
PrepareErrs == {errReuseValues, errCapabilities, errRender, errValidate}

NoRelease ==
    [Name |-> <<>>, Namespace |-> <<>>, Version |-> 0,
     Status |-> "UNKNOWN", Description |-> <<>>, Manifest |-> <<>>]

\* The manifest document rendered for a revision (the revision number is one
\* of the renderer's options, so each revision has its own document).
RenderedManifest(revision) == <<"manifest of revision ">> \o Itoa(revision)

Release(namespace, name, version, status, description) ==
    [Name |-> name, Namespace |-> namespace, Version |-> version,
     Status |-> status, Description |-> description,
     Manifest |-> RenderedManifest(version)]

\* Request names: a bare dotted name, a namespaced name, a malformed name.
NameAB   == <<"a", ".", "b">>
NameB_A  == <<"b", "/", "a">>
NameBad  == <<"a", "!">>
ReqNames == {NameAB, NameB_A, NameBad}

\* Requests as prepareUpdate sees them.  DryRun and DisableHooks start FALSE
\* and take their value where performUpdate first reads them, so that a
\* request rejected earlier is not explored once per unread flag.
UpdateRequests ==
    [Name : ReqNames, Chart : BOOLEAN, DryRun : {FALSE}, DisableHooks : {FALSE}]

NoRequest ==
    [Name |-> <<>>, Chart |-> FALSE, DryRun |-> FALSE, DisableHooks |-> FALSE]

\* The accepted release-name pattern: letters, digits, '-', '_', '.', with
\* '/' separating a namespace, beginning and ending with a letter or digit.
AlphaNum == {"a", "b", "v", "0", "1", "2", "3", "4", "5", "6", "7", "8", "9"}
NameChars == AlphaNum \cup {"-", "_", ".", "/"}

ValidName(name) ==
    /\ Len(name) > 0
    /\ \A i \in 1..Len(name) : name[i] \in NameChars
    /\ name[1] \in AlphaNum
    /\ name[Len(name)] \in AlphaNum

-----------------------------------------------------------------------------
(* Storage driver contract and release store *)

\* Driver.Create: rejects a key that exists, never overwrites.
DriverCreate(st, k, rls) ==
    IF k \in DOMAIN st
    THEN [store |-> st, err |-> errExists]
    ELSE [store |-> (k :> rls) @@ st, err |-> Nil]

\* Driver.Update: replaces the record under a key that exists.
DriverUpdate(st, k, rls) ==
    IF k \in DOMAIN st
    THEN [store |-> [st EXCEPT ![k] = rls], err |-> Nil]
    ELSE [store |-> st, err |-> errNotFound]

\* Driver.Query on the labels NAME, NAMESPACE (OWNER is constant).
DriverQuery(st, name, namespace) ==
    {st[k] : k \in {j \in DOMAIN st :
                       st[j].Name = name /\ st[j].Namespace = namespace}}

\* Mutant of StorageCreate: writes through Update when the key exists.
StorageCreateOverwrites(st, rls) ==
    IF makeKey(keyForRelease(rls), rls.Version) \in DOMAIN st
    THEN DriverUpdate(st, makeKey(keyForRelease(rls), rls.Version),
                      normalizeName(rls))
    ELSE DriverCreate(st, makeKey(keyForRelease(rls), rls.Version),
                      normalizeName(rls))

StorageCreate(st, rls) ==
    DriverCreate(st, makeKey(keyForRelease(rls), rls.Version), normalizeName(rls))

StorageUpdate(st, rls) ==
    DriverUpdate(st, makeKey(keyForRelease(rls), rls.Version), normalizeName(rls))

History(st, name) ==
    LET id == splitName(name)
    IN  DriverQuery(st, id[2], id[1])

\* Mutant of Last: the first of History sorted by revision, ascending.
LastOldest(st, name) ==
    LET h == History(st, name)
    IN  CHOOSE r \in h : \A o \in h : r.Version <= o.Version

\* Last: the first of History sorted by revision, descending.
Last(st, name) ==
    LET h == History(st, name)
    IN  CHOOSE r \in h : \A o \in h : o.Version <= r.Version

-----------------------------------------------------------------------------
(* Manifest provenance: pkg/engine/pollute.go *)

\* Highest release revision found in a rendering context.
MaxRevision == 2

defaultPathKey      == "helm.sh/pollutant"
defaultNamespaceKey == "helm.sh/namespace"
defaultReleaseKey   == "helm.sh/release"
defaultRevisionKey  == "helm.sh/revision"

\* An annotation map (map[string]string) is a set of <<key, value>> pairs
\* with one pair per key; values are tuples of text fragments.  A nil map
\* and an empty map are both the empty set.
Has(m, k) == \E kv \in m : kv[1] = k

Get(m, k) == (CHOOSE kv \in m : kv[1] = k)[2]

\* origin[k] = v
Put(m, k, v) == {kv \in m : kv[1] # k} \cup {<<k, v>>}

\* Values of a rendering context (interface{}): a string or an integer.
StringValue(s) == [type |-> "string", str |-> s, num |-> 0]

IntValue(n) == [type |-> "int", str |-> <<>>, num |-> n]

\* fmt.Sprint of such a value.
Sprint(v) == IF v.type = "int" THEN Itoa(v.num) ELSE v.str

\* The workload kinds of pollute's type switch, and a kind outside it.
WorkloadKinds ==
    {"Deployment", "DaemonSet", "ReplicaSet", "StatefulSet", "Job",
     "ReplicationController"}

OtherKind == "Service"

\* A resource text.  Decodable: defaultSerializer.Decode accepts it; Encoded:
\* it is laid out as defaultSerializer.Encode writes it; Meta: the decoded
\* object has object metadata (the accessor succeeds); Encodable: Encode
\* accepts the decoded object; Template: the annotations of Spec.Template.
Resource(decodable, encoded, kind, hasMeta, encodable, annotations, template) ==
    [Decodable |-> decodable, Encoded |-> encoded, Kind |-> kind,
     Meta |-> hasMeta, Encodable |-> encodable,
     Annotations |-> annotations, Template |-> template]

\* No resource (a pollute that has not run).
NoResource == Resource(FALSE, TRUE, "", FALSE, FALSE, {}, {})

\* defaultSerializer.Decode: the object a decodable text describes.
Decode(resource) ==
    [Kind |-> resource.Kind, Meta |-> resource.Meta,
     Encodable |-> resource.Encodable,
     Annotations |-> resource.Annotations, Template |-> resource.Template]

\* defaultSerializer.Encode: the text of an object, in the serializer's layout.
Encode(obj) ==
    Resource(TRUE, TRUE, obj.Kind, obj.Meta, obj.Encodable,
             obj.Annotations, obj.Template)

\* A rendering context: the chart path and r.vals.AsMap(), of which merge
\* reads "Release" (present or not, a map or not) and three of its fields.
Renderable(path, hasRelease, isMap, release) ==
    [path |-> path,
     vals |-> [hasRelease |-> hasRelease, isMap |-> isMap, Release |-> release]]

NoRenderable == Renderable(<<>>, FALSE, FALSE, {})

\* Mutant of merge: the chart path is appended to the value already there.
mergeAppendsPath(origin, r) ==
    LET o0 == IF Has(origin, defaultPathKey)
              THEN Put(origin, defaultPathKey,
                       Get(origin, defaultPathKey) \o r.path)
              ELSE Put(origin, defaultPathKey, r.path)
        release == r.vals.Release
        o1 == IF Has(release, "Namespace")
              THEN Put(o0, defaultNamespaceKey, Sprint(Get(release, "Namespace")))
              ELSE o0
        o2 == IF Has(release, "Name")
              THEN Put(o1, defaultReleaseKey, Sprint(Get(release, "Name")))
              ELSE o1
        o3 == IF Has(release, "Revision")
              THEN Put(o2, defaultRevisionKey, Sprint(Get(release, "Revision")))
              ELSE o2
    IN  IF ~r.vals.hasRelease \/ ~r.vals.isMap THEN o0 ELSE o3

\* Mutant of merge: a key the map already has keeps its value.
mergeKeepsExisting(origin, r) ==
    LET Add(m, k, v) == IF Has(m, k) THEN m ELSE Put(m, k, v)
        o0 == Add(origin, defaultPathKey, r.path)
        release == r.vals.Release
        o1 == IF Has(release, "Namespace")
              THEN Add(o0, defaultNamespaceKey, Sprint(Get(release, "Namespace")))
              ELSE o0
        o2 == IF Has(release, "Name")
              THEN Add(o1, defaultReleaseKey, Sprint(Get(release, "Name")))
              ELSE o1
        o3 == IF Has(release, "Revision")
              THEN Add(o2, defaultRevisionKey, Sprint(Get(release, "Revision")))
              ELSE o2
    IN  IF ~r.vals.hasRelease \/ ~r.vals.isMap THEN o0 ELSE o3

\* merge: the chart path always; namespace, name and revision each only when
\* values["Release"] is a map that has the field.
merge(origin, r) ==
    LET o0 == Put(origin, defaultPathKey, r.path)
        release == r.vals.Release
        o1 == IF Has(release, "Namespace")
              THEN Put(o0, defaultNamespaceKey, Sprint(Get(release, "Namespace")))
              ELSE o0
        o2 == IF Has(release, "Name")
              THEN Put(o1, defaultReleaseKey, Sprint(Get(release, "Name")))
              ELSE o1
        o3 == IF Has(release, "Revision")
              THEN Put(o2, defaultRevisionKey, Sprint(Get(release, "Revision")))
              ELSE o2
    IN  IF ~r.vals.hasRelease \/ ~r.vals.isMap THEN o0 ELSE o3

\* pollute: every failure returns the resource as it came in.
pollute(resource, r) ==
    IF ~resource.Decodable
    THEN resource
    ELSE LET obj == Decode(resource)
         IN  IF ~obj.Meta
             THEN resource
             ELSE LET top == [obj EXCEPT !.Annotations = merge(@, r)]
                      ins == IF top.Kind \in WorkloadKinds
                             THEN [top EXCEPT !.Template = merge(@, r)]
                             ELSE top
                  IN  IF ~ins.Encodable THEN resource ELSE Encode(ins)

-----------------------------------------------------------------------------
(* State *)

VARIABLES
    store,    \* storage driver contents: storage key -> release record
    pc,       \* position of each worker inside UpdateRelease
    req,      \* the request a worker is serving
    cur,      \* currentRelease / originalRelease held by the worker
    upd,      \* updatedRelease held by the worker (res.Release)
    err,      \* the error UpdateRelease returns (Nil: none)
    calls,    \* calls the worker made to its collaborators, in order
    creates,  \* storage keys created so far, each with the workers that created it
    triples,  \* two (namespace, name, version) triples handed to the key functions
    skeys,    \* the storage keys computed for them
    resource, \* a rendered resource text handed to pollute
    context,  \* the rendering context (renderable) it is polluted with
    once,     \* pollute(resource, context)
    twice     \* pollute(once, context)

\* The variables of the update orchestrator and those of the pure functions.
updVars == <<store, pc, req, cur, upd, err, calls, creates>>
keyVars == <<triples, skeys>>
polluteVars == <<resource, context, once, twice>>
pureVars == <<keyVars, polluteVars>>

vars == <<updVars, pureVars>>

\* Stores the upgrade path may start from: a fresh install; a history whose
\* last upgrade failed; and one where revision 1 of "a.b" has been removed
\* with Storage.Delete and "a" in namespace "b" was installed afterwards.
StoreOne ==
    (makeKey(key(<<>>, <<"a", ".", "b">>), 1)
        :> Release(<<>>, <<"a", ".", "b">>, 1, "DEPLOYED", <<"Install complete">>))

StoreTwo ==
    (makeKey(key(<<>>, <<"a", ".", "b">>), 2)
        :> Release(<<>>, <<"a", ".", "b">>, 2, "DEPLOYED", <<"Upgrade complete">>))
    @@
    (makeKey(key(<<"b">>, <<"a">>), 1)
        :> Release(<<"b">>, <<"a">>, 1, "DEPLOYED", <<"Install complete">>))

StoreFailed ==
    (makeKey(key(<<>>, <<"a", ".", "b">>), 1)
        :> Release(<<>>, <<"a", ".", "b">>, 1, "SUPERSEDED", <<"Install complete">>))
    @@
    (makeKey(key(<<>>, <<"a", ".", "b">>), 2)
        :> Release(<<>>, <<"a", ".", "b">>, 2, "FAILED",
                   <<"Upgrade ", "\"", "a", ".", "b", "\"", " failed: ",
                     errApply>>))

InitStores == {StoreOne, StoreFailed, StoreTwo}

\* No key has been computed yet.
NoTriple == <<<<>>, <<>>, 0>>

KeysIdle ==
    /\ triples = <<NoTriple, NoTriple>>
    /\ skeys = <<<<>>, <<>>>>

\* Nothing has been rendered yet.
PolluteIdle ==
    /\ resource = NoResource
    /\ context = NoRenderable
    /\ once = NoResource
    /\ twice = NoResource

Init ==
    /\ store \in InitStores
    /\ pc = [p \in Procs |-> "idle"]
    /\ req = [p \in Procs |-> NoRequest]
    /\ cur = [p \in Procs |-> NoRelease]
    /\ upd = [p \in Procs |-> NoRelease]
    /\ err = [p \in Procs |-> Nil]
    /\ calls = [p \in Procs |-> <<>>]
    /\ creates = <<>>
    /\ KeysIdle
    /\ PolluteIdle

-----------------------------------------------------------------------------
(* prepareUpdate *)

\* Mutant of UpgradeFailedMsg: the error text is left out.
UpgradeFailedMsgNoError(name, e) ==
    <<"Upgrade ", "\"">> \o name \o <<"\"", " failed">>

\* "Upgrade %q failed: %s": the quoted name, then the error text.
UpgradeFailedMsg(name, e) ==
    <<"Upgrade ", "\"">> \o name \o <<"\"", " failed: ", e>>

\* Mutant of newRelease: the revision number skips one.
newReleaseSkipsRevision(c) ==
    Release(c.Namespace, c.Name, c.Version + 2, "UNKNOWN", <<"Preparing upgrade">>)

\* The updated release built by prepareUpdate.
newRelease(c) ==
    Release(c.Namespace, c.Name, c.Version + 1, "UNKNOWN", <<"Preparing upgrade">>)

\* Mutant of prepareUpdate: the chart is checked after Last.
prepareUpdateChartAfterLast(st, r, envErr) ==
    IF ~ValidName(r.Name)
    THEN [cur |-> NoRelease, upd |-> NoRelease, err |-> errMissingRelease,
          calls |-> <<>>]
    ELSE IF History(st, r.Name) = {}
    THEN [cur |-> NoRelease, upd |-> NoRelease, err |-> errNoRevision,
          calls |-> <<<<"Last", Nil>>>>]
    ELSE IF ~r.Chart
    THEN [cur |-> NoRelease, upd |-> NoRelease, err |-> errMissingChart,
          calls |-> <<<<"Last", Nil>>>>]
    ELSE IF envErr # Nil
    THEN [cur |-> NoRelease, upd |-> NoRelease, err |-> envErr,
          calls |-> <<<<"Last", Nil>>>>]
    ELSE LET c == Last(st, r.Name)
         IN  [cur |-> c, upd |-> newRelease(c), err |-> Nil,
              calls |-> <<<<"Last", Nil>>>>]

\* prepareUpdate on store st; envErr is the failure of a collaborator called
\* after Last (Nil: none fails).
prepareUpdate(st, r, envErr) ==
    IF ~ValidName(r.Name)
    THEN [cur |-> NoRelease, upd |-> NoRelease, err |-> errMissingRelease,
          calls |-> <<>>]
    ELSE IF ~r.Chart
    THEN [cur |-> NoRelease, upd |-> NoRelease, err |-> errMissingChart,
          calls |-> <<>>]
    ELSE IF History(st, r.Name) = {}
    THEN [cur |-> NoRelease, upd |-> NoRelease, err |-> errNoRevision,
          calls |-> <<<<"Last", Nil>>>>]
    ELSE IF envErr # Nil
    THEN [cur |-> NoRelease, upd |-> NoRelease, err |-> envErr,
          calls |-> <<<<"Last", Nil>>>>]
    ELSE LET c == Last(st, r.Name)
         IN  [cur |-> c, upd |-> newRelease(c), err |-> Nil,
              calls |-> <<<<"Last", Nil>>>>]

\* UpdateRelease, lines 33-37: a worker takes a request and prepares it.
Prepare(p) ==
    /\ pc[p] = "idle"
    /\ \E r \in UpdateRequests, e \in PrepareErrs \cup {Nil} :
          LET out == prepareUpdate(store, r, e)
          IN  /\ e # Nil => out.err = e
              /\ req' = [req EXCEPT ![p] = r]
              /\ cur' = [cur EXCEPT ![p] = out.cur]
              /\ upd' = [upd EXCEPT ![p] = out.upd]
              /\ err' = [err EXCEPT ![p] = out.err]
              /\ calls' = [calls EXCEPT ![p] = out.calls]
              /\ pc' = [pc EXCEPT ![p] =
                           IF out.err # Nil THEN "done" ELSE "performUpdate"]
    /\ UNCHANGED <<store, creates>>
    /\ UNCHANGED pureVars

-----------------------------------------------------------------------------
(* performUpdate *)

Log(p, what, e) == [calls EXCEPT ![p] = Append(@, <<what, e>>)]

\* recordRelease(r, reuse): Update when reuse, Create otherwise; the storage
\* error is logged, never returned.
recordRelease(st, rls, reuse) ==
    IF reuse THEN StorageUpdate(st, rls) ELSE StorageCreate(st, rls)

\* The successful Creates so far: storage key -> the workers that created it.
Created(p, k) ==
    IF k \in DOMAIN creates
    THEN [creates EXCEPT ![k] = Append(@, p)]
    ELSE (k :> <<p>>) @@ creates

\* Mutant of DryRun: the dry-run check comes after the pre-upgrade hooks.
DryRunAfterHooks(p) ==
    /\ pc[p] = "performUpdate"
    /\ req' = [req EXCEPT ![p].DryRun = TRUE]
    /\ calls' = Log(p, "PreHook", Nil)
    /\ upd' = [upd EXCEPT ![p].Description = <<"Dry run complete">>]
    /\ pc' = [pc EXCEPT ![p] = "done"]
    /\ UNCHANGED <<store, cur, err, creates>>
    /\ UNCHANGED pureVars

\* Lines 131-135: a dry run returns the computed release at once.
DryRun(p) ==
    /\ pc[p] = "performUpdate"
    /\ req' = [req EXCEPT ![p].DryRun = TRUE]
    /\ upd' = [upd EXCEPT ![p].Description = <<"Dry run complete">>]
    /\ pc' = [pc EXCEPT ![p] = "done"]
    /\ UNCHANGED <<store, cur, err, calls, creates>>
    /\ UNCHANGED pureVars

\* Mutant of PreUpgrade: a failed hook is handled like a failed apply, the
\* releases get their terminal status and are recorded.
PreUpgradeRecordsFailure(p) ==
    /\ pc[p] = "performUpdate"
    /\ \E disableHooks \in BOOLEAN :
          /\ req' = [req EXCEPT ![p].DisableHooks = disableHooks]
          /\ IF disableHooks
             THEN /\ pc' = [pc EXCEPT ![p] = "apply"]
                  /\ UNCHANGED <<err, calls, cur, upd>>
             ELSE \E e \in {Nil, errPreHook} :
                     /\ calls' = Log(p, "PreHook", e)
                     /\ err' = [err EXCEPT ![p] = e]
                     /\ IF e = Nil
                        THEN /\ pc' = [pc EXCEPT ![p] = "apply"]
                             /\ UNCHANGED <<cur, upd>>
                        ELSE /\ cur' = [cur EXCEPT ![p].Status = "SUPERSEDED"]
                             /\ upd' = [upd EXCEPT ![p].Status = "FAILED"]
                             /\ pc' = [pc EXCEPT ![p] = "failRecordOriginal"]
    /\ UNCHANGED <<store, creates>>
    /\ UNCHANGED pureVars

\* Lines 137-144: pre-upgrade hooks, unless disabled.
PreUpgrade(p) ==
    /\ pc[p] = "performUpdate"
    /\ \E disableHooks \in BOOLEAN :
          /\ req' = [req EXCEPT ![p].DisableHooks = disableHooks]
          /\ IF disableHooks
             THEN /\ pc' = [pc EXCEPT ![p] = "apply"]
                  /\ UNCHANGED <<err, calls>>
             ELSE \E e \in {Nil, errPreHook} :
                     /\ calls' = Log(p, "PreHook", e)
                     /\ err' = [err EXCEPT ![p] = e]
                     /\ pc' = [pc EXCEPT ![p] =
                                  IF e = Nil THEN "apply" ELSE "done"]
    /\ UNCHANGED <<store, cur, upd, creates>>
    /\ UNCHANGED pureVars

\* Lines 145-150: ReleaseModule.Update; on failure both releases get their
\* terminal status in memory.
Apply(p) ==
    /\ pc[p] = "apply"
    /\ \E e \in {Nil, errApply} :
          /\ calls' = Log(p, "Apply", e)
          /\ err' = [err EXCEPT ![p] = e]
          /\ IF e = Nil
             THEN /\ pc' = [pc EXCEPT ![p] = "postUpgrade"]
                  /\ UNCHANGED <<cur, upd>>
             ELSE /\ cur' = [cur EXCEPT ![p].Status = "SUPERSEDED"]
                  /\ upd' = [upd EXCEPT
                                ![p].Status = "FAILED",
                                ![p].Description = UpgradeFailedMsg(upd[p].Name, e)]
                  /\ pc' = [pc EXCEPT ![p] = "failRecordOriginal"]
    /\ UNCHANGED <<store, req, creates>>
    /\ UNCHANGED pureVars

\* Line 151: recordRelease(originalRelease, true).
FailRecordOriginal(p) ==
    /\ pc[p] = "failRecordOriginal"
    /\ LET out == recordRelease(store, cur[p], TRUE)
       IN  /\ store' = out.store
           /\ calls' = Log(p, "Update", out.err)
    /\ pc' = [pc EXCEPT ![p] = "failRecordUpdated"]
    /\ UNCHANGED <<req, cur, upd, err, creates>>
    /\ UNCHANGED pureVars

\* Lines 152-153: recordRelease(updatedRelease, false); return res, err.
FailRecordUpdated(p) ==
    /\ pc[p] = "failRecordUpdated"
    /\ LET out == recordRelease(store, upd[p], FALSE)
       IN  /\ store' = out.store
           /\ calls' = Log(p, "Create", out.err)
           /\ creates' = IF out.err = Nil
                         THEN Created(p, makeKey(keyForRelease(upd[p]), upd[p].Version))
                         ELSE creates
    /\ pc' = [pc EXCEPT ![p] = "done"]
    /\ UNCHANGED <<req, cur, upd, err>>
    /\ UNCHANGED pureVars

\* Mutant of PostUpgrade: the hooks run whether or not they are disabled.
PostUpgradeIgnoresDisable(p) ==
    /\ pc[p] = "postUpgrade"
    /\ \E e \in {Nil, errPostHook} :
          /\ calls' = Log(p, "PostHook", e)
          /\ err' = [err EXCEPT ![p] = e]
          /\ pc' = [pc EXCEPT ![p] =
                       IF e = Nil THEN "recordOriginal" ELSE "done"]
    /\ UNCHANGED <<store, req, cur, upd, creates>>
    /\ UNCHANGED pureVars

\* Mutant of PostUpgrade: a failed hook is handled like a failed apply, the
\* releases get their terminal status and are recorded.
PostUpgradeRecordsFailure(p) ==
    /\ pc[p] = "postUpgrade"
    /\ IF req[p].DisableHooks
       THEN /\ pc' = [pc EXCEPT ![p] = "recordOriginal"]
            /\ UNCHANGED <<err, calls, cur, upd>>
       ELSE \E e \in {Nil, errPostHook} :
               /\ calls' = Log(p, "PostHook", e)
               /\ err' = [err EXCEPT ![p] = e]
               /\ IF e = Nil
                  THEN /\ pc' = [pc EXCEPT ![p] = "recordOriginal"]
                       /\ UNCHANGED <<cur, upd>>
                  ELSE /\ cur' = [cur EXCEPT ![p].Status = "SUPERSEDED"]
                       /\ upd' = [upd EXCEPT ![p].Status = "FAILED"]
                       /\ pc' = [pc EXCEPT ![p] = "failRecordOriginal"]
    /\ UNCHANGED <<store, req, creates>>
    /\ UNCHANGED pureVars

\* Lines 156-161: post-upgrade hooks, unless disabled.
PostUpgrade(p) ==
    /\ pc[p] = "postUpgrade"
    /\ IF req[p].DisableHooks
       THEN /\ pc' = [pc EXCEPT ![p] = "recordOriginal"]
            /\ UNCHANGED <<err, calls>>
       ELSE \E e \in {Nil, errPostHook} :
               /\ calls' = Log(p, "PostHook", e)
               /\ err' = [err EXCEPT ![p] = e]
               /\ pc' = [pc EXCEPT ![p] =
                            IF e = Nil THEN "recordOriginal" ELSE "done"]
    /\ UNCHANGED <<store, req, cur, upd, creates>>
    /\ UNCHANGED pureVars

\* Mutant of RecordOriginal: the old release is recorded with the status it
\* was read with.
RecordOriginalKeepsStatus(p) ==
    /\ pc[p] = "recordOriginal"
    /\ LET out == recordRelease(store, cur[p], TRUE)
       IN  /\ store' = out.store
           /\ calls' = Log(p, "Update", out.err)
    /\ upd' = [upd EXCEPT ![p].Status = "DEPLOYED",
                          ![p].Description = <<"Upgrade complete">>]
    /\ pc' = [pc EXCEPT ![p] = "createUpdated"]
    /\ UNCHANGED <<req, cur, err, creates>>
    /\ UNCHANGED pureVars

\* Mutant of RecordOriginal: the new release is created first, the old one
\* is recorded SUPERSEDED after it.
RecordOriginalAfterCreate(p) ==
    /\ pc[p] = "recordOriginal"
    /\ LET new  == [upd[p] EXCEPT !.Status = "DEPLOYED",
                                  !.Description = <<"Upgrade complete">>]
           made == StorageCreate(store, new)
           orig == [cur[p] EXCEPT !.Status = "SUPERSEDED"]
           out  == recordRelease(made.store, orig, TRUE)
       IN  /\ cur' = [cur EXCEPT ![p] = orig]
           /\ upd' = [upd EXCEPT ![p] = new]
           /\ store' = out.store
           /\ calls' = [calls EXCEPT ![p] =
                           @ \o <<<<"Create", made.err>>, <<"Update", out.err>>>>]
           /\ err' = [err EXCEPT ![p] = made.err]
           /\ creates' = IF made.err = Nil
                         THEN Created(p, makeKey(keyForRelease(new), new.Version))
                         ELSE creates
    /\ pc' = [pc EXCEPT ![p] = "done"]
    /\ UNCHANGED req
    /\ UNCHANGED pureVars

\* Mutant of RecordOriginal: the old release is recorded with the manifest
\* of the new one.
RecordOriginalCopiesManifest(p) ==
    /\ pc[p] = "recordOriginal"
    /\ LET orig == [cur[p] EXCEPT !.Status = "SUPERSEDED",
                                  !.Manifest = upd[p].Manifest]
           out  == recordRelease(store, orig, TRUE)
       IN  /\ cur' = [cur EXCEPT ![p] = orig]
           /\ store' = out.store
           /\ calls' = Log(p, "Update", out.err)
    /\ upd' = [upd EXCEPT ![p].Status = "DEPLOYED",
                          ![p].Description = <<"Upgrade complete">>]
    /\ pc' = [pc EXCEPT ![p] = "createUpdated"]
    /\ UNCHANGED <<req, err, creates>>
    /\ UNCHANGED pureVars

\* Lines 163-169: the old release is recorded SUPERSEDED, the new one gets
\* DEPLOYED in memory.
RecordOriginal(p) ==
    /\ pc[p] = "recordOriginal"
    /\ LET orig == [cur[p] EXCEPT !.Status = "SUPERSEDED"]
           out  == recordRelease(store, orig, TRUE)
       IN  /\ cur' = [cur EXCEPT ![p] = orig]
           /\ store' = out.store
           /\ calls' = Log(p, "Update", out.err)
    /\ upd' = [upd EXCEPT ![p].Status = "DEPLOYED",
                          ![p].Description = <<"Upgrade complete">>]
    /\ pc' = [pc EXCEPT ![p] = "createUpdated"]
    /\ UNCHANGED <<req, err, creates>>
    /\ UNCHANGED pureVars

\* Mutant of CreateUpdated: the error of Create is dropped.
CreateUpdatedIgnoresError(p) ==
    /\ pc[p] = "createUpdated"
    /\ LET out == StorageCreate(store, upd[p])
       IN  /\ store' = out.store
           /\ calls' = Log(p, "Create", out.err)
           /\ creates' = IF out.err = Nil
                         THEN Created(p, makeKey(keyForRelease(upd[p]), upd[p].Version))
                         ELSE creates
    /\ pc' = [pc EXCEPT ![p] = "done"]
    /\ UNCHANGED <<req, cur, upd, err>>
    /\ UNCHANGED pureVars

\* UpdateRelease, lines 45-52: Releases.Create(updatedRelease); its error is
\* returned.
CreateUpdated(p) ==
    /\ pc[p] = "createUpdated"
    /\ LET out == StorageCreate(store, upd[p])
       IN  /\ store' = out.store
           /\ calls' = Log(p, "Create", out.err)
           /\ err' = [err EXCEPT ![p] = out.err]
           /\ creates' = IF out.err = Nil
                         THEN Created(p, makeKey(keyForRelease(upd[p]), upd[p].Version))
                         ELSE creates
    /\ pc' = [pc EXCEPT ![p] = "done"]
    /\ UNCHANGED <<req, cur, upd>>
    /\ UNCHANGED pureVars

Next ==
    \E p \in Procs :
        \/ Prepare(p)
        \/ DryRun(p)
        \/ PreUpgrade(p)
        \/ Apply(p)
        \/ FailRecordOriginal(p)
        \/ FailRecordUpdated(p)
        \/ PostUpgrade(p)
        \/ RecordOriginal(p)
        \/ CreateUpdated(p)

Spec == Init /\ [][Next]_vars

-----------------------------------------------------------------------------
(* Properties *)

\* Worker p returns from UpdateRelease in this step.
Returns(p) == pc[p] # "done" /\ pc'[p] = "done"

\* The revisions numbered v that History shows for the identity of rls.
Revision(st, rls, v) ==
    {r \in DriverQuery(st, rls.Name, rls.Namespace) : r.Version = v}

Deployed(st, name, namespace) ==
    {r \in DriverQuery(st, name, namespace) : r.Status = "DEPLOYED"}

HasCall(cs, what, e) == \E i \in 1..Len(cs) : cs[i] = <<what, e>>

HasCallTo(cs, what) == \E i \in 1..Len(cs) : cs[i][1] = what

\* C1: at every moment of every interleaving of update operations, the
\* history of each release identity holds at most one DEPLOYED revision.
AtMostOneDeployed ==
    \A k \in DOMAIN store :
        Cardinality(Deployed(store, store[k].Name, store[k].Namespace)) <= 1

\* C1 witness: two updates of the same revision have both completed, one
\* committed and one lost the Create, and the history grew with one DEPLOYED.
AtMostOneDeployedWitness ==
    \E p, q \in Procs :
        /\ p # q
        /\ pc[p] = "done" /\ pc[q] = "done"
        /\ cur[p].Version = cur[q].Version
        /\ cur[p].Name = cur[q].Name /\ cur[p].Namespace = cur[q].Namespace
        /\ err[p] = Nil /\ HasCall(calls[p], "Create", Nil)
        /\ err[q] = errExists
        /\ Cardinality(DriverQuery(store, cur[p].Name, cur[p].Namespace)) >= 2
        /\ Cardinality(Deployed(store, cur[p].Name, cur[p].Namespace)) = 1

\* C2: when an update whose apply failed returns, and both of its storage
\* writes succeeded, the store holds revision n SUPERSEDED and revision n+1
\* FAILED with the error text in its description, and that error is returned.
ApplyFailureDualWrite ==
    [][\A p \in Procs :
          (/\ Returns(p)
           /\ HasCall(calls'[p], "Apply", errApply)
           /\ HasCall(calls'[p], "Update", Nil)
           /\ HasCall(calls'[p], "Create", Nil))
          => /\ err'[p] = errApply
             /\ \E o \in Revision(store', cur'[p], cur'[p].Version) :
                   o.Status = "SUPERSEDED"
             /\ \E n \in Revision(store', cur'[p], cur'[p].Version + 1) :
                   /\ n.Status = "FAILED"
                   /\ \E i \in 1..Len(n.Description) :
                         n.Description[i] = errApply]_vars

\* C2 witness: an update returned the apply error after both writes.
ApplyFailureDualWriteWitness ==
    \E p \in Procs :
        /\ pc[p] = "done"
        /\ err[p] = errApply
        /\ HasCall(calls[p], "Update", Nil)
        /\ HasCall(calls[p], "Create", Nil)
        /\ \E n \in Revision(store, cur[p], cur[p].Version + 1) :
              n.Status = "FAILED"

\* C3: when a non-dry-run update returns without error, its Create of
\* revision n+1 succeeded, the store holds revision n+1 DEPLOYED with
\* description "Upgrade complete" and revision n SUPERSEDED.
SuccessImpliesCommit ==
    [][\A p \in Procs :
          (Returns(p) /\ err'[p] = Nil /\ ~req'[p].DryRun)
          => /\ HasCall(calls'[p], "Create", Nil)
             /\ ~HasCall(calls'[p], "Create", errExists)
             /\ \E n \in Revision(store', cur'[p], cur'[p].Version + 1) :
                   /\ n.Status = "DEPLOYED"
                   /\ n.Description = <<"Upgrade complete">>
             /\ \E o \in Revision(store', cur'[p], cur'[p].Version) :
                   o.Status = "SUPERSEDED"]_vars

\* C3 witness: a non-dry-run update returned success.
SuccessImpliesCommitWitness ==
    \E p \in Procs :
        /\ pc[p] = "done" /\ err[p] = Nil /\ ~req[p].DryRun
        /\ HasCall(calls[p], "Apply", Nil)
        /\ \E n \in Revision(store, cur[p], cur[p].Version + 1) :
              n.Status = "DEPLOYED"

\* C4: no step of a worker that has not passed the dry-run check changes the
\* store, and a dry run returns with description "Dry run complete" having
\* called nothing but Last: no hook, no apply, no Create, no Update.
DryRunHasNoEffects ==
    [][\A p \in Procs :
          /\ (pc[p] \in {"idle", "performUpdate"} /\ pc'[p] # pc[p])
                => store' = store
          /\ (Returns(p) /\ req'[p].DryRun)
                => /\ store' = store
                   /\ calls'[p] = <<<<"Last", Nil>>>>
                   /\ err'[p] = Nil
                   /\ upd'[p].Description = <<"Dry run complete">>
                   /\ DriverQuery(store', cur'[p].Name, cur'[p].Namespace)
                        = DriverQuery(store, cur[p].Name, cur[p].Namespace)]_vars

\* C4 witness: a dry run has returned.
DryRunHasNoEffectsWitness ==
    \E p \in Procs :
        /\ pc[p] = "done" /\ req[p].DryRun
        /\ upd[p].Description = <<"Dry run complete">>
        /\ upd[p].Version = cur[p].Version + 1

\* C5: an update that fails in preparation or in the pre-upgrade hook never
\* invoked the execution module, made no storage Create or Update, and none
\* of its steps changed the store.
FailureBeforeApply == {errNoRevision, errPreHook} \cup PrepareErrs

FailureBeforeApplyLeavesStore ==
    [][\A p \in Procs :
          /\ (pc[p] \in {"idle", "performUpdate"} /\ pc'[p] # pc[p])
                => store' = store
          /\ (Returns(p) /\ err'[p] \in FailureBeforeApply)
                => /\ store' = store
                   /\ ~HasCallTo(calls'[p], "Apply")
                   /\ ~HasCallTo(calls'[p], "Update")
                   /\ ~HasCallTo(calls'[p], "Create")
                   /\ cur'[p] = cur[p]]_vars

\* C5 witness: the pre-upgrade hook failed on a release whose stored record
\* still has the status that was read; another update failed in preparation.
FailureBeforeApplyWitness ==
    \E p, q \in Procs :
        /\ pc[p] = "done" /\ err[p] = errPreHook
        /\ cur[p] \in Revision(store, cur[p], cur[p].Version)
        /\ pc[q] = "done" /\ err[q] \in PrepareErrs

\* C6: a request with a malformed name or without a chart returns
\* MissingRelease, respectively MissingChart, having made no call to the
\* store or to any other collaborator.
ValidationFailsFast ==
    \A p \in Procs :
        pc[p] = "done" =>
            /\ ~ValidName(req[p].Name)
                  => err[p] = errMissingRelease /\ calls[p] = <<>>
            /\ (ValidName(req[p].Name) /\ ~req[p].Chart)
                  => err[p] = errMissingChart /\ calls[p] = <<>>
            /\ err[p] \in {errMissingRelease, errMissingChart}
                  => calls[p] = <<>> /\ cur[p] = NoRelease

\* C6 witness: one request was rejected for its name, one for its chart.
ValidationFailsFastWitness ==
    \E p, q \in Procs :
        /\ pc[p] = "done" /\ err[p] = errMissingRelease
        /\ req[p].Name = NameBad
        /\ pc[q] = "done" /\ err[q] = errMissingChart

\* C7 (as claimed): every returned update that invoked the execution module
\* has attempted both the write of the old release and the write of the new
\* one.
BothTerminalWritesAttempted ==
    \A p \in Procs :
        (pc[p] = "done" /\ HasCallTo(calls[p], "Apply"))
        => HasCallTo(calls[p], "Update") /\ HasCallTo(calls[p], "Create")

\* C8: no storage key is created twice, and a Create that is rejected
\* leaves the whole store, the existing record included, unchanged.
AtMostOneWriterPerVersion ==
    [][/\ \A k \in DOMAIN creates' : Len(creates'[k]) <= 1
       /\ \A p \in Procs :
             (/\ calls'[p] # calls[p]
              /\ calls'[p][Len(calls'[p])] = <<"Create", errExists>>)
             => /\ store' = store
                /\ makeKey(keyForRelease(upd[p]), upd[p].Version) \in DOMAIN store
       /\ \A p \in Procs :
             (/\ calls'[p] # calls[p]
              /\ calls'[p][Len(calls'[p])] = <<"Create", Nil>>)
             => /\ makeKey(keyForRelease(upd[p]), upd[p].Version) \notin DOMAIN store
                /\ store'[makeKey(keyForRelease(upd[p]), upd[p].Version)] = upd[p]]_vars

\* C8 witness: two updates read the same revision; the Create of one
\* succeeded and the Create of the other was rejected.
AtMostOneWriterWitness ==
    \E p, q \in Procs :
        /\ p # q
        /\ cur[p].Version = cur[q].Version /\ cur[p].Name = cur[q].Name
        /\ cur[p].Namespace = cur[q].Namespace
        /\ HasCall(calls[p], "Create", Nil)
        /\ HasCall(calls[q], "Create", errExists)
        /\ creates[makeKey(keyForRelease(upd[p]), upd[p].Version)] = <<p>>

\* C9 (as claimed): of two updates that read the same current revision and
\* both attempt the Create of the next one, the one whose Create is rejected
\* returns the conflict error.
LoserSurfacesConflict ==
    \A p, q \in Procs :
        (/\ p # q
         /\ cur[p] # NoRelease
         /\ cur[p].Version = cur[q].Version
         /\ cur[p].Name = cur[q].Name /\ cur[p].Namespace = cur[q].Namespace
         /\ HasCall(calls[p], "Create", Nil)
         /\ HasCall(calls[q], "Create", errExists)
         /\ pc[q] = "done")
        => err[q] = errExists

\* C10 (as claimed): a Create is rejected only because of a record of the
\* same release identity.
IdentitiesIndependent ==
    \A p \in Procs :
        HasCall(calls[p], "Create", errExists)
        => LET k == makeKey(keyForRelease(upd[p]), upd[p].Version)
           IN  /\ store[k].Name = upd[p].Name
               /\ store[k].Namespace = upd[p].Namespace

-----------------------------------------------------------------------------
(* Storage keys as a function of (namespace, name, version) *)

\* Highest version handed to makeKey.
MaxKeyVersion == 2

KeyNamespaces == {<<>>, <<"b">>, <<"a">>}
KeyNames      == {<<"a">>, <<"b">>, <<"a", ".", "b">>}

\* The orchestrator at rest, on a fresh install.
UpdateIdle ==
    /\ store = StoreOne
    /\ pc = [p \in Procs |-> "idle"]
    /\ req = [p \in Procs |-> NoRequest]
    /\ cur = [p \in Procs |-> NoRelease]
    /\ upd = [p \in Procs |-> NoRelease]
    /\ err = [p \in Procs |-> Nil]
    /\ calls = [p \in Procs |-> <<>>]
    /\ creates = <<>>

KeysInit == UpdateIdle /\ KeysIdle /\ PolluteIdle

\* Storage.Get / Storage.Delete, lines 38-39 and 66-67: the key of a
\* (namespace, name, version) triple is makeKey(key(namespace, name), version).
ComputeKey(i) ==
    /\ \E ns \in KeyNamespaces, name \in KeyNames, v \in 1..MaxKeyVersion :
          /\ triples' = [triples EXCEPT ![i] = <<ns, name, v>>]
          /\ skeys' = [skeys EXCEPT ![i] = makeKey(key(ns, name), v)]
    /\ UNCHANGED <<updVars, polluteVars>>

KeysNext == \E i \in {1, 2} : ComputeKey(i)

SpecKeys == KeysInit /\ [][KeysNext]_vars

\* C11 (as claimed): two distinct (namespace, name, version) triples have
\* two different storage keys.
StorageKeysInjective ==
    (/\ triples[1] # NoTriple
     /\ triples[2] # NoTriple
     /\ triples[1] # triples[2])
    => skeys[1] # skeys[2]

-----------------------------------------------------------------------------
(* Revision numbering *)

\* Stores whose histories are dense: revisions 1..n of each identity.
DenseStores == {StoreOne, StoreFailed}

InitDense == Init /\ store \in DenseStores

SpecDense == InitDense /\ [][Next]_vars

\* The version numbers History shows for the identity of rls.
Versions(st, rls) == {r.Version : r \in DriverQuery(st, rls.Name, rls.Namespace)}

\* C12: the release prepared by an update has the version of Last plus one
\* and the same identity; every record added to the store has the version its
\* creator read plus one; and after every step the versions stored for each
\* identity are exactly 1..m, each once, with m never decreasing.
RevisionsDense ==
    [][/\ \A p \in Procs :
             (pc[p] = "idle" /\ pc'[p] = "performUpdate")
             => /\ upd'[p].Version = Last(store, req'[p].Name).Version + 1
                /\ upd'[p].Name = Last(store, req'[p].Name).Name
                /\ upd'[p].Namespace = Last(store, req'[p].Name).Namespace
       /\ \A k \in DOMAIN store' \ DOMAIN store :
             \E p \in Procs :
                /\ calls'[p] # calls[p]
                /\ store'[k].Version = cur[p].Version + 1
                /\ store'[k].Name = cur[p].Name
                /\ store'[k].Namespace = cur[p].Namespace
       /\ \A k \in DOMAIN store' :
             LET h == DriverQuery(store', store'[k].Name, store'[k].Namespace)
             IN  /\ Versions(store', store'[k]) = 1..Cardinality(h)
                 /\ Cardinality(h)
                      >= Cardinality(DriverQuery(store, store'[k].Name,
                                                 store'[k].Namespace))]_vars

\* C12 witness: two updates committed one after the other, the second on
\* top of the revision the first created.
RevisionsDenseWitness ==
    \E p, q \in Procs :
        /\ pc[p] = "done" /\ pc[q] = "done"
        /\ HasCall(calls[p], "Create", Nil)
        /\ HasCall(calls[q], "Create", Nil)
        /\ cur[q].Version = upd[p].Version
        /\ Versions(store, upd[q]) = 1..upd[q].Version

-----------------------------------------------------------------------------
(* History and Last *)

\* C13: when prepareUpdate has called Last, the history it read holds exactly
\* the stored records of the requested (namespace, name); with an empty
\* history the update fails with "no revision"; otherwise the release it
\* continues with is the record of that history with the greatest version,
\* whatever its status.
LastReturnsHighest ==
    [][\A p \in Procs :
          (pc[p] = "idle" /\ HasCallTo(calls'[p], "Last"))
          => LET id == splitName(req'[p].Name)
                 h  == History(store, req'[p].Name)
             IN  /\ \A k \in DOMAIN store :
                       store[k] \in h
                       <=> (store[k].Namespace = id[1] /\ store[k].Name = id[2])
                 /\ h = {} <=> err'[p] = errNoRevision
                 /\ pc'[p] = "performUpdate"
                       => /\ cur'[p] \in h
                          /\ \A o \in h : o.Version <= cur'[p].Version
                 /\ h # {}
                       => /\ Last(store, req'[p].Name) \in h
                          /\ \A o \in h :
                                o.Version <= Last(store, req'[p].Name).Version]_vars

\* C13 witness: Last returned a FAILED revision 2 although revision 1 is
\* stored too, and another update found no revision at all.
LastReturnsHighestWitness ==
    \E p, q \in Procs :
        /\ pc[p] # "idle" /\ cur[p].Version = 2 /\ cur[p].Status = "FAILED"
        /\ Cardinality(History(store, req[p].Name)) >= 2
        /\ pc[q] = "done" /\ err[q] = errNoRevision

-----------------------------------------------------------------------------
(* Persistence errors on the apply-failure path *)

\* The errors returned by the storage writes of worker p.
WriteErrors(cs) ==
    {cs[i][2] : i \in {j \in 1..Len(cs) :
                          cs[j][1] \in {"Update", "Create"} /\ cs[j][2] # Nil}}

\* C14 (as claimed): when the apply failed and a storage write of the old or
\* of the new release failed too, the update returns that storage error.
PersistenceErrorSurfaced ==
    \A p \in Procs :
        (/\ pc[p] = "done"
         /\ HasCall(calls[p], "Apply", errApply)
         /\ WriteErrors(calls[p]) # {})
        => err[p] \in WriteErrors(calls[p])

-----------------------------------------------------------------------------
(* Order and frame of one update *)

\* The place of a collaborator call in one update.
Rank(what) ==
    CASE what = "Last"     -> 1
      [] what = "PreHook"  -> 2
      [] what = "Apply"    -> 3
      [] what = "PostHook" -> 4
      [] what = "Update"   -> 5
      [] what = "Create"   -> 6

\* C17: the calls of one update are made in the order Last, pre-upgrade
\* hook, execution-module Update, post-upgrade hook, storage writes, each at
\* most once; validation comes before Last and rendering between Last and
\* the hooks; the execution module is invoked only after the pre-upgrade hook
\* succeeded or with hooks disabled, the post-upgrade hook only after the
\* execution module succeeded; with hooks disabled no hook runs, and apply
\* and both storage writes are still made.
PhaseOrdering ==
    \A p \in Procs :
        LET cs == calls[p]
        IN  /\ \A i, j \in 1..Len(cs) : i < j => Rank(cs[i][1]) < Rank(cs[j][1])
            /\ err[p] \in {errMissingRelease, errMissingChart} => cs = <<>>
            /\ err[p] \in PrepareErrs => cs = <<<<"Last", Nil>>>>
            /\ cs # <<>> => cs[1] = <<"Last", Nil>>
            /\ HasCallTo(cs, "Apply")
                  => HasCall(cs, "PreHook", Nil) \/ req[p].DisableHooks
            /\ HasCallTo(cs, "PostHook") => HasCall(cs, "Apply", Nil)
            /\ (HasCallTo(cs, "Update") \/ HasCallTo(cs, "Create"))
                  => HasCallTo(cs, "Apply")
            /\ req[p].DisableHooks
                  => /\ ~HasCallTo(cs, "PreHook")
                     /\ ~HasCallTo(cs, "PostHook")
                     /\ pc[p] = "done"
                           => /\ HasCallTo(cs, "Apply")
                              /\ HasCallTo(cs, "Update")
                              /\ HasCallTo(cs, "Create")

\* C17 witness: one update ran through every phase with hooks, another
\* committed with hooks disabled.
PhaseOrderingWitness ==
    \E p, q \in Procs :
        /\ pc[p] = "done" /\ Len(calls[p]) = 6
        /\ pc[q] = "done" /\ req[q].DisableHooks
        /\ [i \in 1..Len(calls[q]) |-> calls[q][i][1]]
             = <<"Last", "Apply", "Update", "Create">>

\* C18: an update issues the Create of the new revision only after its
\* Update of the old one; when the Create is about to be issued the stored
\* old revision is SUPERSEDED; and at no moment of an update are its old and
\* its new revision both DEPLOYED in the store.
SupersedeBeforeCreate ==
    \A p \in Procs :
        LET cs == calls[p]
        IN  /\ \A j \in 1..Len(cs) :
                  cs[j][1] = "Create"
                  => \E i \in 1..(j - 1) : cs[i] = <<"Update", Nil>>
            /\ pc[p] \in {"failRecordUpdated", "createUpdated"}
                  => \A o \in Revision(store, cur[p], cur[p].Version) :
                        o.Status = "SUPERSEDED"
            /\ cur[p] # NoRelease
                  => ~(/\ \E o \in Revision(store, cur[p], cur[p].Version) :
                             o.Status = "DEPLOYED"
                       /\ \E n \in Revision(store, cur[p], cur[p].Version + 1) :
                             n.Status = "DEPLOYED")

\* C18 witness: one update wrote both records on the success path, another
\* on the apply-failure path.
SupersedeBeforeCreateWitness ==
    \E p, q \in Procs :
        /\ pc[p] = "done" /\ err[p] = Nil
        /\ HasCall(calls[p], "Update", Nil) /\ HasCall(calls[p], "Create", Nil)
        /\ pc[q] = "done" /\ err[q] = errApply
        /\ HasCall(calls[q], "Update", Nil) /\ HasCall(calls[q], "Create", Nil)

\* C19: no step removes a stored record or lowers the number of revisions
\* of an identity, and a step changes a stored record at most in its status,
\* to SUPERSEDED: version, manifest, description and identity stay.
OnlyStatusChanges ==
    [][/\ DOMAIN store \subseteq DOMAIN store'
       /\ \A k \in DOMAIN store :
             /\ \/ store'[k] = store[k]
                \/ store'[k] = [store[k] EXCEPT !.Status = "SUPERSEDED"]
             /\ Cardinality(DriverQuery(store', store[k].Name, store[k].Namespace))
                  >= Cardinality(DriverQuery(store, store[k].Name,
                                             store[k].Namespace))]_vars

\* C19 witness: a revision that was DEPLOYED when an update read it is
\* stored SUPERSEDED with the manifest it had, next to the new revision.
OnlyStatusChangesWitness ==
    \E p \in Procs :
        /\ pc[p] = "done" /\ err[p] = Nil
        /\ HasCall(calls[p], "Create", Nil)
        /\ \E o \in Revision(store, cur[p], cur[p].Version) :
              /\ o.Status = "SUPERSEDED"
              /\ o.Manifest = RenderedManifest(cur[p].Version)
              /\ o.Manifest # upd[p].Manifest
        /\ upd[p] \in Revision(store, cur[p], cur[p].Version + 1)

\* C20: an update whose post-upgrade hook failed returns the hook error
\* after a successful apply without having called the store's Update or
\* Create; none of its steps changed the store, and the release it returns
\* still has status UNKNOWN.
PostHookFailureWritesNothing ==
    [][\A p \in Procs :
          /\ (pc[p] \in {"idle", "performUpdate", "apply", "postUpgrade"}
              /\ pc'[p] # pc[p])
                => store' = store
          /\ (Returns(p) /\ err'[p] = errPostHook)
                => /\ store' = store
                   /\ HasCall(calls'[p], "Apply", Nil)
                   /\ calls'[p][Len(calls'[p])] = <<"PostHook", errPostHook>>
                   /\ ~HasCallTo(calls'[p], "Update")
                   /\ ~HasCallTo(calls'[p], "Create")
                   /\ ~req'[p].DryRun
                   /\ cur'[p] = cur[p]
                   /\ upd'[p].Status = "UNKNOWN"
                   /\ upd'[p].Description = <<"Preparing upgrade">>]_vars

\* C20 witness: the post-upgrade hook of an update failed; the revision it
\* read is stored as it was read and the next revision is not stored.
PostHookFailureWitness ==
    \E p \in Procs :
        /\ pc[p] = "done" /\ err[p] = errPostHook
        /\ cur[p].Status = "DEPLOYED"
        /\ cur[p] \in Revision(store, cur[p], cur[p].Version)
        /\ Revision(store, cur[p], cur[p].Version + 1) = {}

-----------------------------------------------------------------------------
(* Provenance injection *)

\* Annotation maps found in rendered resources: none; one of the user's; and
\* one of the user's next to the four provenance keys of an earlier render.
AnnNone == {}

AnnUser == {<<"app", <<"x">>>>}

AnnStale ==
    {<<"app", <<"x">>>>,
     <<defaultPathKey, <<"old/templates/a.yaml">>>>,
     <<defaultNamespaceKey, <<"o">>>>,
     <<defaultReleaseKey, <<"o">>>>,
     <<defaultRevisionKey, <<"0">>>>}

AnnotationSets == {AnnNone, AnnUser, AnnStale}

\* A text that is not a resource of the cluster.
Undecodable == Resource(FALSE, FALSE, "", FALSE, FALSE, {}, {})

\* Rendered resources: the undecodable text; objects without object metadata;
\* and objects of each kind, encodable or not, only workloads with a template.
Resources ==
    {Undecodable}
    \cup {Resource(TRUE, FALSE, "List", FALSE, enc, {}, {}) : enc \in BOOLEAN}
    \cup {Resource(TRUE, FALSE, OtherKind, TRUE, enc, a, {}) :
             enc \in BOOLEAN, a \in AnnotationSets}
    \cup {Resource(TRUE, FALSE, k, TRUE, enc, a, t) :
             k \in WorkloadKinds, enc \in BOOLEAN,
             a \in AnnotationSets, t \in AnnotationSets}

Paths == {<<"chart/templates/a.yaml">>, <<"chart/templates/b.yaml">>}

\* What values["Release"] can hold when it is a map: each of Namespace, Name
\* and Revision present or not, the revision a number or a string.
ReleaseMaps ==
    {ns \cup nm \cup rv :
        ns \in {{}, {<<"Namespace", StringValue(<<"b">>)>>}},
        nm \in {{}, {<<"Name", StringValue(<<"a">>)>>}},
        rv \in {{}, {<<"Revision", StringValue(<<"1">>)>>}}
               \cup {{<<"Revision", IntValue(n)>>} : n \in 1..MaxRevision}}

Renderables ==
    {Renderable(path, FALSE, FALSE, {}) : path \in Paths}
    \cup {Renderable(path, TRUE, FALSE, {}) : path \in Paths}
    \cup {Renderable(path, TRUE, TRUE, m) : path \in Paths, m \in ReleaseMaps}

PolluteInit ==
    /\ UpdateIdle
    /\ KeysIdle
    /\ resource \in Resources
    /\ context \in Renderables
    /\ once = NoResource
    /\ twice = NoResource

\* The renderer passes a resource through pollute.
PolluteOnce ==
    /\ once = NoResource
    /\ once' = pollute(resource, context)
    /\ UNCHANGED <<resource, context, twice>>
    /\ UNCHANGED <<updVars, keyVars>>

\* The output is polluted again with the same context.
PolluteTwice ==
    /\ once # NoResource
    /\ twice = NoResource
    /\ twice' = pollute(once, context)
    /\ UNCHANGED <<resource, context, once>>
    /\ UNCHANGED <<updVars, keyVars>>

PolluteNext == PolluteOnce \/ PolluteTwice

SpecPollute == PolluteInit /\ [][PolluteNext]_vars

\* The annotations read back from a resource text: top level and template.
AnnotationsOf(text) == IF text.Decodable THEN Decode(text).Annotations ELSE {}

TemplateOf(text) == IF text.Decodable THEN Decode(text).Template ELSE {}

ProvenanceKeys ==
    {defaultPathKey, defaultNamespaceKey, defaultReleaseKey, defaultRevisionKey}

\* C15: pollute applied twice with one context gives the top-level and the
\* template annotations that one application gives, and a resource that
\* fails to decode comes back as it went in.
PolluteIdempotent ==
    /\ twice # NoResource
          => /\ AnnotationsOf(twice) = AnnotationsOf(once)
             /\ TemplateOf(twice) = TemplateOf(once)
             /\ twice.Decodable = once.Decodable
    /\ (once # NoResource /\ ~resource.Decodable) => once = resource
    /\ (twice # NoResource /\ ~resource.Decodable) => twice = resource

\* C15 witness: a Deployment that carried stale provenance annotations was
\* polluted twice with a context that has all three release fields, and the
\* first application rewrote it.
PolluteIdempotentWitness ==
    /\ twice # NoResource
    /\ resource.Kind = "Deployment"
    /\ resource.Annotations = AnnStale /\ resource.Template = AnnUser
    /\ Cardinality(context.vals.Release) = 3
    /\ once # resource
    /\ Has(TemplateOf(twice), defaultRevisionKey)

\* The stamp merge puts under key k for field f of the context's Release.
Stamped(a, k, f) ==
    /\ Has(a, k)
    /\ Has(context.vals.Release, f)
          => Get(a, k) = Sprint(Get(context.vals.Release, f))

\* C16 (as claimed): after pollute of a decodable resource its top-level
\* annotations have the chart-path, namespace, release-name and
\* release-revision keys with the values of the context, and every other
\* annotation keeps its value.
StampsAllFour ==
    (once # NoResource /\ resource.Decodable)
    => LET a == AnnotationsOf(once)
       IN  /\ Has(a, defaultPathKey) /\ Get(a, defaultPathKey) = context.path
           /\ Stamped(a, defaultNamespaceKey, "Namespace")
           /\ Stamped(a, defaultReleaseKey, "Name")
           /\ Stamped(a, defaultRevisionKey, "Revision")
           /\ \A kv \in resource.Annotations :
                 kv[1] \notin ProvenanceKeys => kv \in a

\* Key k after pollute: the context's field f when Release is a map that has
\* it, otherwise whatever the resource carried under k, if anything.
StampedIfPresent(a, k, f) ==
    IF Has(context.vals.Release, f)
    THEN Has(a, k) /\ Get(a, k) = Sprint(Get(context.vals.Release, f))
    ELSE {kv \in a : kv[1] = k} = {kv \in resource.Annotations : kv[1] = k}

\* C16 (amended): when the resource decodes, has object metadata and encodes
\* again, its top-level annotations have the chart path of the context, and
\* each of namespace, release name and revision has the context's value if
\* values["Release"] is a map with that field and is left as it was if not;
\* every other annotation keeps its value and none is added.  In every
\* other case the resource comes back as it went in.
StampsWhatContextHas ==
    once # NoResource
    => IF resource.Decodable /\ resource.Meta /\ resource.Encodable
       THEN LET a == AnnotationsOf(once)
            IN  /\ Has(a, defaultPathKey)
                /\ Get(a, defaultPathKey) = context.path
                /\ StampedIfPresent(a, defaultNamespaceKey, "Namespace")
                /\ StampedIfPresent(a, defaultReleaseKey, "Name")
                /\ StampedIfPresent(a, defaultRevisionKey, "Revision")
                /\ {kv \in a : kv[1] \notin ProvenanceKeys}
                     = {kv \in resource.Annotations : kv[1] \notin ProvenanceKeys}
                /\ \A kv, kw \in a : kv[1] = kw[1] => kv = kw
       ELSE once = resource

\* C16 witness: a resource with stale provenance annotations was polluted
\* with a context whose Release has a numeric revision and no name: path and
\* revision were overwritten, the stale release name stayed.
StampsWhatContextHasWitness ==
    /\ once # NoResource /\ once # resource
    /\ resource.Annotations = AnnStale
    /\ Has(context.vals.Release, "Revision")
    /\ Get(context.vals.Release, "Revision").type = "int"
    /\ ~Has(context.vals.Release, "Name")
    /\ Get(AnnotationsOf(once), defaultRevisionKey)
         = Itoa(Get(context.vals.Release, "Revision").num)
    /\ Get(AnnotationsOf(once), defaultReleaseKey) = <<"o">>
    /\ Get(AnnotationsOf(once), defaultPathKey) = context.path

====
